---- MODULE Spec2Model ----
(***************************************************************************)
(* The stash of rgb-node (src/src/stashd/stash.rs): Runtime::consign and   *)
(* Runtime::merge over a Store (self.storage) and an Index (self.indexer). *)
(*                                                                         *)
(* Node identifiers are content-addressed: an identifier fixes the kind of *)
(* the node, its parent pointers and the commitments of its assignments.   *)
(* What varies between two copies of a node is which of its assignment     *)
(* items are in revealed and which in concealed form.                      *)
(***************************************************************************)
EXTENDS Integers, Sequences, FiniteSets, TLC

\* ------------------------------------------------------------- bounds
NumNodes == 3         \* transitions and extensions that exist besides genesis
NumAnchors == 1       \* anchors that exist
MaxExpose == 1        \* largest expose set passed to consign
MaxKnownSeals == 1    \* longest known_seals passed to merge
MaxEntries == 1       \* longest state_transitions / state_extensions of a
                      \* consignment received from a counterparty

\* ------------------------------------------------------- identifiers
NodeIds == 1..NumNodes
AnchorIds == 1..NumAnchors
ContractId == 0                   \* the contract of every node of NodeIds
OtherContractId == NumNodes + 1   \* a contract none of the nodes belongs to
ContractIds == {ContractId, OtherContractId}
Seals == 1..NumNodes              \* revealed seal definitions (OutpointReveal)

\* The concealed form (commitment) of a revealed seal or endpoint. It is
\* one-way: no operator of the model inverts it, a concealed seal is only
\* ever compared with the commitment of a candidate.
Conceal(r) == r + NumNodes

RECURSIVE SetToSeq(_)
\* The identifiers of a BTreeMap in iteration (ascending) order.
SetToSeq(S) ==
    IF S = {} THEN <<>>
    ELSE LET m == CHOOSE x \in S : \A y \in S : x <= y
         IN <<m>> \o SetToSeq(S \ {m})

Range(s) == {s[i] : i \in 1..Len(s)}

\* ------------------------------------------------ the contract graph
\* Every node that exists (in some party's possession). Node 1 points at
\* genesis only; node 2 is an extension of node 1; node n > 2 consumes the
\* rights of n-2 and n-1 and also references n-1 publicly, so n-2 is reached
\* by two paths and n-1 by two pointers of the same node.
KindOf(n) == IF n % 2 = 0 THEN "Extension" ELSE "Transition"

ParentOwnedOf(n) ==
    IF KindOf(n) = "Extension" THEN {}
    ELSE {p \in {n - 2, n - 1} : p >= 0}

ParentPublicOf(n) == {n - 1}

VariantOf(n) ==
    CASE n % 3 = 1 -> "DiscreteFiniteField"
      [] n % 3 = 2 -> "CustomData"
      [] OTHER     -> "Declarative"

\* An assignment item (OwnedState): revealed, carrying the seal definition
\* and the state, or confidential, carrying only the commitment.
Revealed(r) == [conf |-> FALSE, seal |-> r]
Confidential(r) == [conf |-> TRUE, seal |-> Conceal(r)]

\* Node n with its single assignment item (bound to seal n) in the given form.
MkNode(n, conf) ==
    [kind |-> KindOf(n),
     node_id |-> n,
     parent_owned_rights |-> ParentOwnedOf(n),
     parent_public_rights |-> ParentPublicOf(n),
     owned_rights |-> [t \in {n} |->
        [variant |-> VariantOf(n),
         set |-> <<IF conf THEN Confidential(n) ELSE Revealed(n)>>]]]

MkGenesis(c) ==
    [kind |-> "Genesis",
     node_id |-> c,
     parent_owned_rights |-> {},
     parent_public_rights |-> {},
     owned_rights |-> <<>>]

MkAnchor(a) == [anchor_id |-> a]

NodeValues == {MkNode(n, conf) : n \in NodeIds, conf \in BOOLEAN}
Transitions == {v \in NodeValues : v.kind = "Transition"}
Extensions == {v \in NodeValues : v.kind = "Extension"}
Anchors == {MkAnchor(a) : a \in AnchorIds}

\* The anchor that commits to transition n (one anchor per transition).
AnchorIdOf(n) == 1 + (n % NumAnchors)


\* ------------------------------------------- concealment, revelation
\* AutoConceal::conceal_except on an item: a revealed item whose seal
\* commitment is not among `seals` becomes confidential; a confidential item
\* has no pre-image to reveal and stays as it is.
conceal_except_item(a, seals) ==
    IF a.conf \/ Conceal(a.seal) \in seals THEN a
    ELSE Confidential(a.seal)

\* AutoConceal::conceal_except on a node: every group of every variant.
conceal_except(node, seals) ==
    [node EXCEPT !.owned_rights =
        [t \in DOMAIN node.owned_rights |->
            [node.owned_rights[t] EXCEPT !.set =
                [i \in 1..Len(node.owned_rights[t].set) |->
                    conceal_except_item(node.owned_rights[t].set[i], seals)]]]]

\* Mutant of conceal_all: the node is left as the stash holds it.
conceal_all_skipped(node) == node

\* AutoConceal::conceal_all: conceal_except with nothing excepted.
conceal_all(node) == conceal_except(node, {})

\* OwnedState::reveal_seals: a confidential item whose commitment is that of
\* a known seal takes its revealed form.
reveal_seals(a, known_seals) ==
    IF a.conf /\ \E i \in 1..Len(known_seals) : Conceal(known_seals[i]) = a.seal
    THEN Revealed(CHOOSE r \in Range(known_seals) : Conceal(r) = a.seal)
    ELSE a

\* Mutant of reveal_known_seals: Declarative groups are revealed too.
reveal_known_seals_every_variant(assignments, known_seals) ==
    [assignments EXCEPT !.set =
        [i \in 1..Len(assignments.set) |->
            reveal_seals(assignments.set[i], known_seals)]]

\* The closure reveal_known_seals of merge, applied to one owned-rights group.
reveal_known_seals(assignments, known_seals) ==
    IF assignments.variant = "Declarative" THEN assignments
    ELSE [assignments EXCEPT !.set =
            [i \in 1..Len(assignments.set) |->
                reveal_seals(assignments.set[i], known_seals)]]

\* ------------------------------------------------------------ Store
\* self.storage: one keyed collection per kind, each a map from the
\* identifier to the stored value.
EmptyStorage ==
    [genesis |-> <<>>, anchors |-> <<>>, transitions |-> <<>>, extensions |-> <<>>]

add_genesis(st, genesis) ==
    [st EXCEPT !.genesis = (genesis.node_id :> genesis) @@ st.genesis]

add_anchor(st, anchor) ==
    [st EXCEPT !.anchors = (anchor.anchor_id :> anchor) @@ st.anchors]

add_transition(st, transition) ==
    [st EXCEPT !.transitions = (transition.node_id :> transition) @@ st.transitions]

add_extension(st, extension) ==
    [st EXCEPT !.extensions = (extension.node_id :> extension) @@ st.extensions]

\* ------------------------------------------------------------ Index
\* self.indexer: transition identifier -> anchor identifier.
EmptyIndex == <<>>

index_insert(ix, node_id, anchor_id) == (node_id :> anchor_id) @@ ix

\* ---------------------------------------------------------- results
Ok(v) == [ok |-> TRUE, value |-> v]
Err(e) == [ok |-> FALSE, error |-> e]

\* ---------------------------------------------------------- consign
\* Mutant of parent_ids: the parent public rights are left out.
parent_ids_owned_only(node) == SetToSeq(node.parent_owned_rights)

\* The identifiers a node contributes to the work queue: those of its
\* parent owned rights, then those of its parent public rights.
parent_ids(node) ==
    SetToSeq(node.parent_owned_rights) \o SetToSeq(node.parent_public_rights)

\* Mutant of consign_match: an identifier the Store holds neither as a
\* transition nor as an extension is skipped.
consign_match_skip_missing(st, anchor, node_id, cs) ==
    LET isT == node_id \in DOMAIN st.transitions
        isE == node_id \in DOMAIN st.extensions
    IN  IF isT /\ ~isE
        THEN LET transition == conceal_all(st.transitions[node_id])
             IN [cs EXCEPT
                   !.sources = @ \o parent_ids(transition),
                   !.state_transitions = Append(@, <<anchor, transition>>)]
        ELSE IF isE /\ ~isT
        THEN LET extension == conceal_all(st.extensions[node_id])
             IN [cs EXCEPT
                   !.sources = @ \o parent_ids(extension),
                   !.state_extensions = Append(@, extension)]
        ELSE IF ~isT /\ ~isE THEN cs
        ELSE [cs EXCEPT !.status = "StorageError"]

\* The match on (storage.transition(node_id), storage.extension(node_id))
\* for a dequeued identifier whose anchor was loaded.
consign_match(st, anchor, node_id, cs) ==
    LET isT == node_id \in DOMAIN st.transitions
        isE == node_id \in DOMAIN st.extensions
    IN  IF isT /\ ~isE
        THEN LET transition == conceal_all(st.transitions[node_id])
             IN [cs EXCEPT
                   !.sources = @ \o parent_ids(transition),
                   !.state_transitions = Append(@, <<anchor, transition>>)]
        ELSE IF isE /\ ~isT
        THEN LET extension == conceal_all(st.extensions[node_id])
             IN [cs EXCEPT
                   !.sources = @ \o parent_ids(extension),
                   !.state_extensions = Append(@, extension)]
        ELSE [cs EXCEPT !.status = "StorageError"]

\* Mutant of consign_step: the Genesis identifier is looked up like any
\* other identifier.
consign_step_genesis_looked_up(st, ix, genesis, cs) ==
    LET node_id == Head(cs.sources)
        popped == [cs EXCEPT !.sources = Tail(@)]
    IN  IF node_id \notin DOMAIN ix
        THEN [popped EXCEPT !.status = "IndexError"]
        ELSE IF ix[node_id] \notin DOMAIN st.anchors
        THEN [popped EXCEPT !.status = "StorageError"]
        ELSE consign_match(st, st.anchors[ix[node_id]], node_id, popped)

\* One pass of `while let Some(node_id) = sources.pop_front()`, on the loop
\* state cs = [sources, state_transitions, state_extensions, status].
consign_step(st, ix, genesis, cs) ==
    LET node_id == Head(cs.sources)
        popped == [cs EXCEPT !.sources = Tail(@)]
    IN  IF node_id = genesis.node_id THEN popped
        ELSE IF node_id \notin DOMAIN ix
        THEN [popped EXCEPT !.status = "IndexError"]
        ELSE IF ix[node_id] \notin DOMAIN st.anchors
        THEN [popped EXCEPT !.status = "StorageError"]
        ELSE consign_match(st, st.anchors[ix[node_id]], node_id, popped)

RECURSIVE consign_loop(_, _, _, _)
\* The while loop, run until the queue is empty or a step fails.
consign_loop(st, ix, genesis, cs) ==
    IF cs.status # "running" \/ cs.sources = <<>> THEN cs
    ELSE consign_loop(st, ix, genesis, consign_step(st, ix, genesis, cs))

\* Mutant of concealed_endpoints: the endpoints are taken as they are.
concealed_endpoints_raw(expose) == expose

\* expose.iter().map(SealEndpoint::conceal).collect()
concealed_endpoints(expose) == {Conceal(e) : e \in expose}

\* Mutant of consign_begin: a Genesis passed as the target is recorded like
\* an extension instead of being refused.
consign_begin_genesis_accepted(st, contract_id, node, anchor, expose) ==
    LET start == [sources |-> parent_ids(node), state_transitions |-> <<>>,
                  state_extensions |-> <<>>, status |-> "running"]
    IN  IF contract_id \notin DOMAIN st.genesis
        THEN [start EXCEPT !.status = "StorageError"]
        ELSE IF node.kind = "Transition"
        THEN IF anchor = <<>>
             THEN [start EXCEPT !.status = "AnchorParameterIsRequired"]
             ELSE [start EXCEPT !.state_transitions =
                      <<<<anchor[1], conceal_except(node, concealed_endpoints(expose))>>>>]
        ELSE [start EXCEPT !.state_extensions =
                      <<conceal_except(node, concealed_endpoints(expose))>>]

\* Mutant of consign_begin: the anchor is required of every target, not
\* only of a transition.
consign_begin_anchor_for_all(st, contract_id, node, anchor, expose) ==
    LET start == [sources |-> parent_ids(node), state_transitions |-> <<>>,
                  state_extensions |-> <<>>, status |-> "running"]
    IN  IF contract_id \notin DOMAIN st.genesis
        THEN [start EXCEPT !.status = "StorageError"]
        ELSE IF node.kind = "Genesis"
        THEN [start EXCEPT !.status = "GenesisNode"]
        ELSE IF anchor = <<>>
        THEN [start EXCEPT !.status = "AnchorParameterIsRequired"]
        ELSE IF node.kind = "Transition"
        THEN [start EXCEPT !.state_transitions =
                      <<<<anchor[1], conceal_except(node, concealed_endpoints(expose))>>>>]
        ELSE [start EXCEPT !.state_extensions =
                      <<conceal_except(node, concealed_endpoints(expose))>>]

\* The statements of consign before the loop: the genesis is loaded, the
\* target is concealed except for the exposed endpoints and recorded, the
\* queue is seeded.
consign_begin(st, contract_id, node, anchor, expose) ==
    LET start == [sources |-> parent_ids(node), state_transitions |-> <<>>,
                  state_extensions |-> <<>>, status |-> "running"]
    IN  IF contract_id \notin DOMAIN st.genesis
        THEN [start EXCEPT !.status = "StorageError"]
        ELSE IF node.kind = "Transition"
        THEN IF anchor = <<>>
             THEN [start EXCEPT !.status = "AnchorParameterIsRequired"]
             ELSE [start EXCEPT !.state_transitions =
                      <<<<anchor[1], conceal_except(node, concealed_endpoints(expose))>>>>]
        ELSE IF node.kind = "Extension"
        THEN [start EXCEPT !.state_extensions =
                      <<conceal_except(node, concealed_endpoints(expose))>>]
        ELSE [start EXCEPT !.status = "GenesisNode"]

\* Runtime::consign. `anchor` is an Option: <<>> or <<an anchor>>.
consign(st, ix, contract_id, node, anchor, expose) ==
    LET cs == consign_begin(st, contract_id, node, anchor, expose)
        end == consign_loop(st, ix, st.genesis[contract_id], cs)
        exposed == SetToSeq(expose)
    IN  IF cs.status # "running" THEN Err(cs.status)
        ELSE IF end.status # "running" THEN Err(end.status)
        ELSE Ok([genesis |-> st.genesis[contract_id],
                 endpoints |-> [i \in 1..Len(exposed) |-> <<node.node_id, exposed[i]>>],
                 state_transitions |-> end.state_transitions,
                 state_extensions |-> end.state_extensions])

\* ------------------------------------------- consign, read by read
\* The same method with every read of the Store and of the Index as a step
\* of its own. rd is the call: its arguments, its position pc (the next
\* read), the loop state cs and the locals genesis, node_id, anchor_id,
\* anchor_read and transition_read of the pass in progress.
consign_enter(contract_id, node, anchor, expose) ==
    [op |-> "consign", contract_id |-> contract_id, node |-> node,
     anchor |-> anchor, expose |-> expose, pc |-> "genesis",
     cs |-> [sources |-> <<>>, state_transitions |-> <<>>,
             state_extensions |-> <<>>, status |-> "running"],
     genesis |-> <<>>, node_id |-> 0, anchor_id |-> 0,
     anchor_read |-> <<>>, transition_read |-> <<>>]

\* The position after a pass of the loop: the next pop, or the return.
loop_pc(cs) ==
    IF cs.status # "running" \/ cs.sources = <<>> THEN "done" ELSE "index"

\* self.storage.genesis(&contract_id)?, and the statements up to the loop.
consign_read_genesis(st, rd) ==
    LET cs == consign_begin(st, rd.contract_id, rd.node, rd.anchor, rd.expose)
    IN  [rd EXCEPT
           !.cs = cs,
           !.genesis = IF rd.contract_id \in DOMAIN st.genesis
                       THEN <<st.genesis[rd.contract_id]>> ELSE <<>>,
           !.pc = loop_pc(cs)]

\* Mutant of consign_read_index: the Genesis identifier is left at the head
\* of the queue.
consign_read_index_genesis_kept(ix, rd) ==
    LET node_id == Head(rd.cs.sources)
        popped == [rd.cs EXCEPT !.sources = Tail(@)]
    IN  IF node_id = rd.genesis[1].node_id
        THEN rd
        ELSE IF node_id \notin DOMAIN ix
        THEN [rd EXCEPT !.cs = [popped EXCEPT !.status = "IndexError"],
                        !.node_id = node_id, !.pc = "done"]
        ELSE [rd EXCEPT !.cs = popped, !.node_id = node_id,
                        !.anchor_id = ix[node_id], !.pc = "anchor"]

\* Mutant of consign_read_index: a miss of the Index is reported as a
\* StorageError.
consign_read_index_storage_error(ix, rd) ==
    LET node_id == Head(rd.cs.sources)
        popped == [rd.cs EXCEPT !.sources = Tail(@)]
    IN  IF node_id = rd.genesis[1].node_id
        THEN [rd EXCEPT !.cs = popped, !.pc = loop_pc(popped)]
        ELSE IF node_id \notin DOMAIN ix
        THEN [rd EXCEPT !.cs = [popped EXCEPT !.status = "StorageError"],
                        !.node_id = node_id, !.pc = "done"]
        ELSE [rd EXCEPT !.cs = popped, !.node_id = node_id,
                        !.anchor_id = ix[node_id], !.pc = "anchor"]

\* sources.pop_front(), the test against the genesis, and
\* self.indexer.anchor_id_by_transition_id(node_id)?
consign_read_index(ix, rd) ==
    LET node_id == Head(rd.cs.sources)
        popped == [rd.cs EXCEPT !.sources = Tail(@)]
    IN  IF node_id = rd.genesis[1].node_id
        THEN [rd EXCEPT !.cs = popped, !.pc = loop_pc(popped)]
        ELSE IF node_id \notin DOMAIN ix
        THEN [rd EXCEPT !.cs = [popped EXCEPT !.status = "IndexError"],
                        !.node_id = node_id, !.pc = "done"]
        ELSE [rd EXCEPT !.cs = popped, !.node_id = node_id,
                        !.anchor_id = ix[node_id], !.pc = "anchor"]

\* Mutant of consign_read_anchor: an ancestor whose anchor the Store does
\* not hold is passed over.
consign_read_anchor_skip_missing(st, rd) ==
    IF rd.anchor_id \notin DOMAIN st.anchors
    THEN [rd EXCEPT !.node_id = 0, !.anchor_id = 0, !.pc = loop_pc(rd.cs)]
    ELSE [rd EXCEPT !.anchor_read = <<st.anchors[rd.anchor_id]>>,
                    !.pc = "transition"]

\* self.storage.anchor(&anchor_id)?
consign_read_anchor(st, rd) ==
    IF rd.anchor_id \notin DOMAIN st.anchors
    THEN [rd EXCEPT !.cs.status = "StorageError", !.pc = "done"]
    ELSE [rd EXCEPT !.anchor_read = <<st.anchors[rd.anchor_id]>>,
                    !.pc = "transition"]

\* What a lookup of one identifier in a map of the Store gives: the entry,
\* as a map of one element, or nothing.
lookup(map, id) == IF id \in DOMAIN map THEN (id :> map[id]) ELSE <<>>

\* self.storage.transition(&node_id), the first component of the match.
consign_read_transition(st, rd) ==
    [rd EXCEPT !.transition_read = lookup(st.transitions, rd.node_id),
               !.pc = "extension"]

\* self.storage.extension(&node_id), the second component, and the match
\* on the two results.
consign_read_extension(st, rd) ==
    LET read == [transitions |-> rd.transition_read,
                 extensions |-> lookup(st.extensions, rd.node_id)]
        cs == consign_match(read, rd.anchor_read[1], rd.node_id, rd.cs)
    IN  [rd EXCEPT !.cs = cs, !.pc = loop_pc(cs),
                   !.node_id = IF cs.status = "running" THEN 0 ELSE @,
                   !.anchor_id = 0, !.anchor_read = <<>>,
                   !.transition_read = <<>>]

\* The value consign returns once the loop is left.
consign_end(rd) ==
    LET exposed == SetToSeq(rd.expose)
    IN  IF rd.cs.status # "running" THEN Err(rd.cs.status)
        ELSE Ok([genesis |-> rd.genesis[1],
                 endpoints |-> [i \in 1..Len(exposed) |-> <<rd.node.node_id, exposed[i]>>],
                 state_transitions |-> rd.cs.state_transitions,
                 state_extensions |-> rd.cs.state_extensions])

\* The next read of the call, by its position.
consign_read(st, ix, rd) ==
    CASE rd.pc = "genesis" -> consign_read_genesis(st, rd)
      [] rd.pc = "index" -> consign_read_index(ix, rd)
      [] rd.pc = "anchor" -> consign_read_anchor(st, rd)
      [] rd.pc = "transition" -> consign_read_transition(st, rd)
      [] rd.pc = "extension" -> consign_read_extension(st, rd)

RECURSIVE consign_reads(_, _, _)
\* The call run to its end against a stash that does not change.
consign_reads(st, ix, rd) ==
    IF rd.pc = "done" THEN rd
    ELSE consign_reads(st, ix, consign_read(st, ix, rd))

\* ------------------------------------------------------------ merge
\* The transition or extension of a consignment as merge stores it: a copy
\* with reveal_known_seals applied to every owned-rights group.
reveal_node(node, known_seals) ==
    [node EXCEPT !.owned_rights =
        [t \in DOMAIN node.owned_rights |->
            reveal_known_seals(node.owned_rights[t], known_seals)]]

\* The state of merge on entry: ms = [storage, i, pc, accepts, result], i the
\* entry being processed, pc the next Store write, accepts the number of
\* writes the Store still accepts before it fails (-1: every write).
merge_begin(st, consignment, accepts) ==
    [storage |-> st,
     i |-> 1,
     pc |-> IF Len(consignment.state_transitions) >= 1 THEN "add_anchor"
            ELSE IF Len(consignment.state_extensions) >= 1 THEN "add_extension"
            ELSE "done",
     accepts |-> accepts,
     result |-> Ok(<<>>)]

\* Mutant of merge_running: a failed write does not end merge.
merge_running_after_error(ms) == ms.pc # "done"

\* merge goes on to its next write: neither past the last entry nor
\* returned by the `?` of a failed write.
merge_running(ms) == ms.result.ok /\ ms.pc # "done"

\* Mutant of merge_add_anchor: the anchor is not stored.
merge_add_anchor_skipped(consignment, ms) ==
    [ms EXCEPT !.pc = "add_transition"]

\* self.storage.add_anchor(&anchor)? for entry ms.i.
merge_add_anchor(consignment, ms) ==
    [ms EXCEPT
       !.storage = add_anchor(@, consignment.state_transitions[ms.i][1]),
       !.pc = "add_transition"]

\* Mutant of merge_add_transition: a transition the Store already holds is
\* refused.
merge_add_transition_once(consignment, known_seals, ms) ==
    LET nT == Len(consignment.state_transitions)
        nE == Len(consignment.state_extensions)
        transition == reveal_node(consignment.state_transitions[ms.i][2], known_seals)
    IN  IF transition.node_id \in DOMAIN ms.storage.transitions
        THEN [ms EXCEPT !.result = Err("StorageError")]
        ELSE [ms EXCEPT
               !.storage = add_transition(@, transition),
               !.i = IF ms.i + 1 <= nT THEN ms.i + 1 ELSE 1,
               !.pc = IF ms.i + 1 <= nT THEN "add_anchor"
                      ELSE IF nE >= 1 THEN "add_extension" ELSE "done"]

\* The transition of entry ms.i is cloned, its seals revealed, and stored;
\* the loop goes to the next pair, or to the extensions.
merge_add_transition(consignment, known_seals, ms) ==
    LET nT == Len(consignment.state_transitions)
        nE == Len(consignment.state_extensions)
        transition == reveal_node(consignment.state_transitions[ms.i][2], known_seals)
    IN  [ms EXCEPT
           !.storage = add_transition(@, transition),
           !.i = IF ms.i + 1 <= nT THEN ms.i + 1 ELSE 1,
           !.pc = IF ms.i + 1 <= nT THEN "add_anchor"
                  ELSE IF nE >= 1 THEN "add_extension" ELSE "done"]

\* The extension of entry ms.i is cloned, its seals revealed, and stored.
merge_add_extension(consignment, known_seals, ms) ==
    LET nE == Len(consignment.state_extensions)
        extension == reveal_node(consignment.state_extensions[ms.i], known_seals)
    IN  [ms EXCEPT
           !.storage = add_extension(@, extension),
           !.i = IF ms.i + 1 <= nE THEN ms.i + 1 ELSE 1,
           !.pc = IF ms.i + 1 <= nE THEN "add_extension" ELSE "done"]

\* One Store write of merge. A write the Store rejects changes nothing and
\* sets the result merge returns.
merge_step(consignment, known_seals, ms) ==
    LET accepted == [ms EXCEPT !.accepts = IF @ > 0 THEN @ - 1 ELSE @]
    IN  IF ms.accepts = 0
        THEN [ms EXCEPT !.result = Err("StorageError")]
        ELSE CASE ms.pc = "add_anchor" -> merge_add_anchor(consignment, accepted)
               [] ms.pc = "add_transition" ->
                    merge_add_transition(consignment, known_seals, accepted)
               [] ms.pc = "add_extension" ->
                    merge_add_extension(consignment, known_seals, accepted)

RECURSIVE merge_loop(_, _, _)
\* The two for loops, run until merge returns.
merge_loop(consignment, known_seals, ms) ==
    IF ~merge_running(ms) THEN ms
    ELSE merge_loop(consignment, known_seals, merge_step(consignment, known_seals, ms))

\* Runtime::merge: the storage it leaves and the result it returns. The
\* indexer is not touched.
merge(st, consignment, known_seals, accepts) ==
    LET end == merge_loop(consignment, known_seals,
                          merge_begin(st, consignment, accepts))
    IN  [storage |-> end.storage, result |-> end.result]

\* The number of Store writes a merge of the consignment makes.
NumWrites(consignment) ==
    2 * Len(consignment.state_transitions) + Len(consignment.state_extensions)

\* ------------------------------------------------------ the machine
VARIABLES
    storage,    \* Runtime.storage
    indexer,    \* Runtime.indexer
    call,       \* the call in progress or just finished, with its arguments
                \* and its result; [op |-> "idle"] between calls
    consigning  \* a call of consign that runs one read at a time beside the
                \* call above, with its position and its local variables;
                \* [op |-> "idle"] when there is none

vars == <<storage, indexer, call, consigning>>

Idle == [op |-> "idle"]

SeqsUpTo(S, n) == UNION {[1..k -> S] : k \in 0..n}

ExposeSets == {E \in SUBSET Seals : Cardinality(E) <= MaxExpose}
KnownSeals == SeqsUpTo(Seals, MaxKnownSeals)
ConsignNodes == NodeValues \cup {MkGenesis(ContractId)}
OptAnchors == {<<>>} \cup {<<a>> : a \in Anchors}

\* No node identifier occurs twice in a list of nodes.
DistinctIds(nodes) ==
    \A i, j \in 1..Len(nodes) : nodes[i].node_id = nodes[j].node_id => i = j

\* The consignments a counterparty may send: any transitions and extensions
\* in any form, each node at most once.
Received ==
    {[genesis |-> MkGenesis(ContractId),
      endpoints |-> <<>>,
      state_transitions |-> ts,
      state_extensions |-> es] :
        ts \in {x \in SeqsUpTo(Anchors \X Transitions, MaxEntries) :
                    DistinctIds([i \in 1..Len(x) |-> x[i][2]])},
        es \in {x \in SeqsUpTo(Extensions, MaxEntries) : DistinctIds(x)}}

Init ==
    /\ storage = EmptyStorage
    /\ indexer = EmptyIndex
    /\ call = Idle
    /\ consigning = Idle

\* A contract is registered with the node: its genesis enters the Store.
Register(c) ==
    /\ call = Idle
    /\ c \notin DOMAIN storage.genesis
    /\ storage' = add_genesis(storage, MkGenesis(c))
    /\ UNCHANGED <<indexer, consigning>>
    /\ call' = Idle

\* The Index learns the anchor of a node.
IndexAnchor(n) ==
    /\ call = Idle
    /\ n \notin DOMAIN indexer
    /\ indexer' = index_insert(indexer, n, AnchorIdOf(n))
    /\ UNCHANGED <<storage, consigning>>
    /\ call' = Idle

\* Mutant of Consign: the concealment is applied to the stored target, not
\* to a copy of it.
Consign_concealing_in_place(contract_id, node, anchor, expose) ==
    LET concealed == conceal_except(node, concealed_endpoints(expose))
    IN  /\ call = Idle
        /\ call' = [op |-> "consign", contract_id |-> contract_id, node |-> node,
                    anchor |-> anchor, expose |-> expose,
                    result |-> consign(storage, indexer, contract_id, node, anchor, expose)]
        /\ storage' = IF node.node_id \in DOMAIN storage.transitions
                      THEN add_transition(storage, concealed)
                      ELSE IF node.node_id \in DOMAIN storage.extensions
                      THEN add_extension(storage, concealed)
                      ELSE storage
        /\ UNCHANGED <<indexer, consigning>>

\* A call of Runtime::consign, from entry to return.
Consign(contract_id, node, anchor, expose) ==
    /\ call = Idle
    /\ call' = [op |-> "consign", contract_id |-> contract_id, node |-> node,
                anchor |-> anchor, expose |-> expose,
                result |-> consign(storage, indexer, contract_id, node, anchor, expose)]
    /\ UNCHANGED <<storage, indexer, consigning>>

\* Runtime::merge is entered.
MergeEnter(consignment, known_seals) ==
    LET ms == merge_begin(storage, consignment, -1)
    IN  /\ call' = [op |-> "merge", consignment |-> consignment,
                    known_seals |-> known_seals, before |-> storage,
                    i |-> ms.i, pc |-> ms.pc, result |-> ms.result]
        /\ UNCHANGED <<storage, indexer, consigning>>

\* merge of a consignment received from a counterparty.
MergeReceived(consignment, known_seals) ==
    /\ call = Idle
    /\ MergeEnter(consignment, known_seals)

\* merge of the consignment that consign has just returned.
MergeConsigned(known_seals) ==
    /\ call.op = "consign"
    /\ call.result.ok
    /\ MergeEnter(call.result.value, known_seals)

\* The next Store write of the merge in progress; the Store accepts it or
\* fails, and then merge returns the error.
MergeWrite(accepted) ==
    /\ call.op = "merge"
    /\ merge_running(call)
    /\ LET ms == merge_step(call.consignment, call.known_seals,
                    [storage |-> storage, i |-> call.i, pc |-> call.pc,
                     accepts |-> IF accepted THEN -1 ELSE 0,
                     result |-> call.result])
       IN  /\ storage' = ms.storage
           /\ call' = [call EXCEPT !.i = ms.i, !.pc = ms.pc, !.result = ms.result]
    /\ UNCHANGED <<indexer, consigning>>

\* The caller takes the result.
Return ==
    /\ \/ call.op = "consign"
       \/ call.op = "merge" /\ ~merge_running(call)
    /\ call' = Idle
    /\ UNCHANGED <<storage, indexer, consigning>>

Next ==
    \/ \E c \in ContractIds : Register(c)
    \/ \E n \in NodeIds : IndexAnchor(n)
    \/ \E c \in ContractIds, node \in ConsignNodes, anchor \in OptAnchors,
          expose \in ExposeSets : Consign(c, node, anchor, expose)
    \/ \E consignment \in Received, known_seals \in KnownSeals :
          MergeReceived(consignment, known_seals)
    \/ \E known_seals \in KnownSeals : MergeConsigned(known_seals)
    \/ \E accepted \in BOOLEAN : MergeWrite(accepted)
    \/ Return

Spec == Init /\ [][Next]_vars

\* ------------------------------- the machine, consign read by read
\* A second call, of consign, runs beside the call of merge: every read of
\* the Store or of the Index is a step, and the Store writes of the merge in
\* progress fall between the reads.
ConsignEnter(contract_id, node, anchor, expose) ==
    /\ consigning = Idle
    /\ consigning' = consign_enter(contract_id, node, anchor, expose)
    /\ UNCHANGED <<storage, indexer, call>>

ConsignReadGenesis ==
    /\ consigning.op = "consign"
    /\ consigning.pc = "genesis"
    /\ consigning' = consign_read_genesis(storage, consigning)
    /\ UNCHANGED <<storage, indexer, call>>

ConsignReadIndex ==
    /\ consigning.op = "consign"
    /\ consigning.pc = "index"
    /\ consigning' = consign_read_index(indexer, consigning)
    /\ UNCHANGED <<storage, indexer, call>>

ConsignReadAnchor ==
    /\ consigning.op = "consign"
    /\ consigning.pc = "anchor"
    /\ consigning' = consign_read_anchor(storage, consigning)
    /\ UNCHANGED <<storage, indexer, call>>

ConsignReadTransition ==
    /\ consigning.op = "consign"
    /\ consigning.pc = "transition"
    /\ consigning' = consign_read_transition(storage, consigning)
    /\ UNCHANGED <<storage, indexer, call>>

ConsignReadExtension ==
    /\ consigning.op = "consign"
    /\ consigning.pc = "extension"
    /\ consigning' = consign_read_extension(storage, consigning)
    /\ UNCHANGED <<storage, indexer, call>>

\* consign returns consign_end(consigning) to its caller.
ConsignReturn ==
    /\ consigning.op = "consign"
    /\ consigning.pc = "done"
    /\ consigning' = Idle
    /\ UNCHANGED <<storage, indexer, call>>

\* The consignments a counterparty's consign produces for a history it
\* sends: every node in the form conceal_all leaves it in.
ReceivedConcealed ==
    {c \in Received :
        /\ \A i \in 1..Len(c.state_transitions) :
              c.state_transitions[i][2] = conceal_all(c.state_transitions[i][2])
        /\ \A i \in 1..Len(c.state_extensions) :
              c.state_extensions[i] = conceal_all(c.state_extensions[i])}

\* The nodes passed to the call read by read: each in revealed form, or the
\* genesis.
StepNodes == {MkNode(n, FALSE) : n \in NodeIds} \cup {MkGenesis(ContractId)}

NextSteps ==
    \/ consigning = Idle /\ Register(ContractId)
    \/ \E n \in NodeIds : consigning = Idle /\ IndexAnchor(n)
    \/ \E consignment \in ReceivedConcealed : MergeReceived(consignment, <<>>)
    \/ MergeWrite(TRUE)
    \/ Return
    \/ \E c \in ContractIds, node \in StepNodes, anchor \in OptAnchors :
          ConsignEnter(c, node, anchor, {})
    \/ ConsignReadGenesis
    \/ ConsignReadIndex
    \/ ConsignReadAnchor
    \/ ConsignReadTransition
    \/ ConsignReadExtension
    \/ ConsignReturn

SpecSteps == Init /\ [][NextSteps]_vars

\* consign and merge are synchronous: a call that has a next read, or a next
\* write, takes it.
ConsignProgress ==
    \/ ConsignReadGenesis
    \/ ConsignReadIndex
    \/ ConsignReadAnchor
    \/ ConsignReadTransition
    \/ ConsignReadExtension

SpecStepsFair ==
    /\ SpecSteps
    /\ WF_vars(ConsignProgress)
    /\ WF_vars(MergeWrite(TRUE))

\* =========================================================== claims
ConsignReturned == call.op = "consign" /\ call.result.ok
MergeSucceeded == call.op = "merge" /\ call.pc = "done" /\ call.result.ok
MergeFailed == call.op = "merge" /\ ~call.result.ok

\* The transitions and the extensions of a consignment, as lists of nodes.
TransitionsIn(c) == [i \in 1..Len(c.state_transitions) |-> c.state_transitions[i][2]]
NodesIn(c) == Range(TransitionsIn(c)) \cup Range(c.state_extensions)
IdsIn(c) == {v.node_id : v \in NodesIn(c)}
ParentsOf(v) == v.parent_owned_rights \cup v.parent_public_rights

\* An item is in revealed form / all items of a node are concealed.
Items(v) == UNION {Range(v.owned_rights[t].set) : t \in DOMAIN v.owned_rights}
AllConcealed(v) == \A a \in Items(v) : a.conf

\* The endpoint of an item is in expose: the commitment of its seal is the
\* commitment of an exposed endpoint.
Exposed(a, expose) ==
    (IF a.conf THEN a.seal ELSE Conceal(a.seal)) \in {Conceal(e) : e \in expose}

\* The entry of the target node in the consignment consign returned: the
\* first one recorded, of the list of its kind.
TargetEntry ==
    IF call.node.kind = "Transition"
    THEN call.result.value.state_transitions[1][2]
    ELSE call.result.value.state_extensions[1]

\* The entries added by the ancestor traversal: all but the target's own.
AncestorEntries ==
    LET c == call.result.value
    IN  IF call.node.kind = "Transition"
        THEN Range(Tail(TransitionsIn(c))) \cup Range(c.state_extensions)
        ELSE Range(TransitionsIn(c)) \cup Range(Tail(c.state_extensions))

\* The two renderings of consign agree: against a stash that does not change,
\* the call run read by read returns what the call run in one step returned.
ConsignReadsAgree ==
    call.op = "consign" =>
        call.result = consign_end(consign_reads(storage, indexer,
            consign_enter(call.contract_id, call.node, call.anchor, call.expose)))

\* ---- C1
\* C1: closure. In every Consignment returned by consign, every parent
\* identifier of every included Transition or Extension is the Genesis
\* identifier of contract_id or the identifier of an included node.
C1_Closure ==
    ConsignReturned =>
        \A v \in NodesIn(call.result.value) :
            \A p \in ParentsOf(v) :
                p = call.contract_id \/ p \in IdsIn(call.result.value)

\* A consignment was returned whose target has a non-genesis ancestor that
\* itself has a non-genesis parent.
C1_Witness ==
    /\ ConsignReturned
    /\ \E v \in AncestorEntries : \E p \in ParentsOf(v) : p # call.contract_id

\* ---- C2
\* The consignment differs from another at most in the order of its entries.
SameUpToOrder(c, d) ==
    /\ c.genesis = d.genesis
    /\ Range(c.endpoints) = Range(d.endpoints)
    /\ Range(c.state_transitions) = Range(d.state_transitions)
    /\ Range(c.state_extensions) = Range(d.state_extensions)

\* C2: round trip. The Consignment C returned by consign, merged into a
\* fresh stash B, makes consign on B with the same arguments succeed with a
\* Consignment equal to C up to the order of the entries.
C2_RoundTrip ==
    ConsignReturned =>
        \A known_seals \in KnownSeals :
            LET B == merge(EmptyStorage, call.result.value, known_seals, -1)
                again == consign(B.storage, EmptyIndex, call.contract_id,
                                 call.node, call.anchor, call.expose)
            IN  /\ B.result.ok
                /\ again.ok
                /\ SameUpToOrder(again.value, call.result.value)

\* ---- C3
\* C3: after a successful merge every Transition of the consignment is
\* registered in the Index under the identifier of the anchor it came with.
C3_MergeIndexes ==
    MergeSucceeded =>
        \A i \in 1..Len(call.consignment.state_transitions) :
            LET pair == call.consignment.state_transitions[i]
            IN  /\ pair[2].node_id \in DOMAIN indexer
                /\ indexer[pair[2].node_id] = pair[1].anchor_id

\* ---- C4
\* The item of the node passed to consign that the item a of the target
\* entry is the copy of.
PassedItem(t, i) == call.node.owned_rights[t].set[i]

\* C4 as stated: in the target's entry an item whose endpoint is not in
\* expose is concealed, and an item whose endpoint is in expose is revealed.
C4_TargetConcealment ==
    ConsignReturned =>
        \A a \in Items(TargetEntry) : a.conf <=> ~Exposed(a, call.expose)

\* C4 amended: in the target's entry an item whose endpoint is not in expose
\* is concealed, and an item whose endpoint is in expose is in the form it
\* has in the node passed to consign: revealed if it was passed revealed,
\* concealed if it was passed concealed.
C4_TargetConcealmentAmended ==
    ConsignReturned =>
        \A t \in DOMAIN TargetEntry.owned_rights :
            \A i \in 1..Len(TargetEntry.owned_rights[t].set) :
                LET a == TargetEntry.owned_rights[t].set[i]
                IN  IF Exposed(PassedItem(t, i), call.expose)
                    THEN a = PassedItem(t, i)
                    ELSE a.conf

\* A consignment was returned for a target passed with a revealed item whose
\* endpoint is in expose.
C4_Witness ==
    /\ ConsignReturned
    /\ \E a \in Items(call.node) : ~a.conf /\ Exposed(a, call.expose)
    /\ \E a \in Items(TargetEntry) : ~a.conf

\* ---- C5
\* C5: every entry of the consignment added by the ancestor traversal has
\* all of its assignment items concealed, whatever expose is.
C5_AncestorConcealment ==
    ConsignReturned => \A v \in AncestorEntries : AllConcealed(v)

\* A consignment was returned with an ancestor that the stash holds in
\* revealed form and whose item's endpoint is in expose.
C5_Witness ==
    /\ ConsignReturned
    /\ \E v \in AncestorEntries :
          /\ \E a \in Items(v) : Exposed(a, call.expose)
          /\ LET held == IF v.kind = "Transition"
                         THEN storage.transitions[v.node_id]
                         ELSE storage.extensions[v.node_id]
             IN  \E a \in Items(held) : ~a.conf

\* ---- C6
\* C6: merge is idempotent. After a successful merge, the same merge once
\* more succeeds and leaves the Store as it is.
C6_MergeIdempotent ==
    MergeSucceeded =>
        LET again == merge(storage, call.consignment, call.known_seals, -1)
        IN  again.result.ok /\ again.storage = storage

\* A merge succeeded that changed the Store and stored a node.
C6_Witness ==
    /\ MergeSucceeded
    /\ storage # call.before
    /\ NodesIn(call.consignment) # {}

\* ---- C7
\* The copy of a node of the consignment that the Store holds.
Stored(v) ==
    IF v.kind = "Transition" THEN storage.transitions[v.node_id]
    ELSE storage.extensions[v.node_id]

IsStored(v) ==
    IF v.kind = "Transition" THEN v.node_id \in DOMAIN storage.transitions
    ELSE v.node_id \in DOMAIN storage.extensions

KnownSeal(a, known_seals) ==
    a.conf /\ \E r \in Range(known_seals) : Conceal(r) = a.seal

PersistedByMerge(k) ==
    LET t == reveal_node(call.consignment.state_transitions[k][2], call.known_seals)
    IN  /\ t.node_id \in DOMAIN storage.transitions
        /\ storage.transitions[t.node_id] = t
        /\ \/ t.node_id \notin DOMAIN call.before.transitions
           \/ call.before.transitions[t.node_id] # t

AnchorsOfPersisted ==
    call.op = "merge" =>
        \A k \in 1..Len(call.consignment.state_transitions) :
            PersistedByMerge(k) =>
                call.consignment.state_transitions[k][1].anchor_id
                    \in DOMAIN storage.anchors

\* C8: in every state during or after a merge, failed or not, every
\* Transition the merge has persisted has the anchor it is paired with in
\* the consignment persisted, and no step removes an anchor from the Store.
C8_AnchorBeforeTransition ==
    /\ []AnchorsOfPersisted
    /\ [][DOMAIN storage.anchors \subseteq DOMAIN storage'.anchors]_vars

\* A merge stopped with a StorageError after it had persisted a transition.
C8_Witness ==
    /\ MergeFailed
    /\ \E k \in 1..Len(call.consignment.state_transitions) : PersistedByMerge(k)

\* ---- C9
\* The Store writes of a merge, in order.
RECURSIVE WritesOfPairs(_, _)
WritesOfPairs(pairs, known_seals) ==
    IF pairs = <<>> THEN <<>>
    ELSE <<[kind |-> "anchor", value |-> Head(pairs)[1]],
           [kind |-> "transition", value |-> reveal_node(Head(pairs)[2], known_seals)]>>
         \o WritesOfPairs(Tail(pairs), known_seals)

WritesOf(c, known_seals) ==
    WritesOfPairs(c.state_transitions, known_seals)
    \o [i \in 1..Len(c.state_extensions) |->
          [kind |-> "extension", value |-> reveal_node(c.state_extensions[i], known_seals)]]

\* The value the Store holds under a key after the writes ws on top of st.
RECURSIVE LastWritten(_, _, _, _)
LastWritten(ws, kind, id, default) ==
    IF ws = <<>> THEN default
    ELSE LET w == ws[Len(ws)]
             key == IF kind = "anchor" THEN w.value.anchor_id ELSE w.value.node_id
         IN  IF w.kind = kind /\ key = id THEN <<w.value>>
             ELSE LastWritten(SubSeq(ws, 1, Len(ws) - 1), kind, id, default)

Lookup(f, id) == IF id \in DOMAIN f THEN <<f[id]>> ELSE <<>>

\* The Store is st with exactly the writes ws made on top.
IsAfterWrites(now, st, ws) ==
    /\ now.genesis = st.genesis
    /\ \A a \in AnchorIds :
          Lookup(now.anchors, a) = LastWritten(ws, "anchor", a, Lookup(st.anchors, a))
    /\ \A n \in NodeIds :
          /\ Lookup(now.transitions, n)
                = LastWritten(ws, "transition", n, Lookup(st.transitions, n))
          /\ Lookup(now.extensions, n)
                = LastWritten(ws, "extension", n, Lookup(st.extensions, n))
    /\ DOMAIN now.anchors \subseteq AnchorIds
    /\ DOMAIN now.transitions \cup DOMAIN now.extensions \subseteq NodeIds

\* The writes of the merge in progress that the Store has accepted.
WritesDone ==
    IF call.pc = "add_anchor" THEN 2 * (call.i - 1)
    ELSE IF call.pc = "add_transition" THEN 2 * (call.i - 1) + 1
    ELSE 2 * Len(call.consignment.state_transitions) + (call.i - 1)

FailedMergeState ==
    MergeFailed =>
        /\ call.result.error = "StorageError"
        /\ IsAfterWrites(storage, call.before,
               SubSeq(WritesOf(call.consignment, call.known_seals), 1, WritesDone))
        /\ LET retry == merge(storage, call.consignment, call.known_seals, -1)
               never == merge(call.before, call.consignment, call.known_seals, -1)
           IN  retry.result.ok /\ retry.storage = never.storage

\* C9: when a Store write fails during merge, merge returns that error and
\* writes nothing more; the Store then holds exactly the entries written
\* before the failing write; the same merge run again with a Store that
\* accepts every write ends in the Store of a merge that never failed.
C9_PartialFailureRetry ==
    /\ []FailedMergeState
    /\ [][MergeFailed => (storage' = storage /\ call' = Idle)]_vars

\* A merge failed between two writes: some written, some not.
C9_Witness ==
    /\ MergeFailed
    /\ WritesDone >= 1
    /\ storage # call.before
    /\ storage # merge(call.before, call.consignment, call.known_seals, -1).storage

\* ---- C10
WorldParents(p) ==
    IF p \in NodeIds THEN ParentOwnedOf(p) \cup ParentPublicOf(p) ELSE {}

RECURSIVE ParentClosure(_)
ParentClosure(S) ==
    LET T == S \cup UNION {WorldParents(p) : p \in S}
    IN  IF T = S THEN S ELSE ParentClosure(T)

\* The identifiers reachable from a node through parent owned-rights and
\* public-rights pointers.
ReachableFrom(node) == ParentClosure(ParentsOf(node))

\* The stash holds neither a transition nor an extension under the identifier.
Missing(id) ==
    id \notin DOMAIN storage.transitions /\ id \notin DOMAIN storage.extensions

\* C10: when an identifier reachable from the target, other than the Genesis
\* identifier of contract_id, cannot be loaded, consign returns an error.
C10_MissingAncestorFatal ==
    (/\ call.op = "consign"
     /\ \E id \in ReachableFrom(call.node) : id # call.contract_id /\ Missing(id))
        => ~call.result.ok

\* consign failed on an ancestor that is missing from the Store although the
\* Index names its anchor and the Store holds that anchor.
C10_Witness ==
    /\ call.op = "consign"
    /\ call.contract_id \in DOMAIN storage.genesis
    /\ ~call.result.ok
    /\ call.result.error = "StorageError"
    /\ \E id \in ReachableFrom(call.node) :
          /\ id # call.contract_id
          /\ Missing(id)
          /\ id \in DOMAIN indexer
          /\ indexer[id] \in DOMAIN storage.anchors

\* ---- C11
\* C11: consign called with a Genesis as the node fails with GenesisNode, for
\* every contract_id, anchor, expose and state of the stash.
C11_GenesisRefused ==
    (call.op = "consign" /\ call.node.kind = "Genesis")
        => call.result = Err("GenesisNode")

\* C11, amended: consign called with a Genesis as the node returns no
\* Consignment; it fails with GenesisNode when the Store holds the genesis of
\* contract_id, and with StorageError, from the genesis load that comes first,
\* when it does not.
C11_GenesisRefusedAmended ==
    (call.op = "consign" /\ call.node.kind = "Genesis")
        => call.result = Err(IF call.contract_id \in DOMAIN storage.genesis
                             THEN "GenesisNode" ELSE "StorageError")

\* consign was called with a Genesis as the node, an anchor and a stored
\* transition in the stash, and failed with GenesisNode.
C11_Witness ==
    /\ call.op = "consign"
    /\ call.node.kind = "Genesis"
    /\ call.anchor # <<>>
    /\ storage.transitions # <<>>
    /\ call.result = Err("GenesisNode")

\* ---- C12
\* C12: consign called with a Transition as the node and no anchor fails with
\* AnchorParameterIsRequired; called with an Extension as the node and no
\* anchor it does not fail for the missing anchor.
C12_AnchorRequired ==
    /\ (call.op = "consign" /\ call.node.kind = "Transition" /\ call.anchor = <<>>)
          => call.result = Err("AnchorParameterIsRequired")
    /\ (call.op = "consign" /\ call.node.kind = "Extension" /\ call.anchor = <<>>)
          => (call.result.ok \/ call.result.error # "AnchorParameterIsRequired")

\* C12, amended: consign called with a Transition as the node and no anchor
\* returns no Consignment; it fails with AnchorParameterIsRequired when the
\* Store holds the genesis of contract_id and with StorageError when it does
\* not. Called with an Extension as the node and no anchor, it returns what it
\* returns when an anchor is passed.
C12_AnchorRequiredAmended ==
    /\ (call.op = "consign" /\ call.node.kind = "Transition" /\ call.anchor = <<>>)
          => call.result = Err(IF call.contract_id \in DOMAIN storage.genesis
                               THEN "AnchorParameterIsRequired" ELSE "StorageError")
    /\ (call.op = "consign" /\ call.node.kind = "Extension" /\ call.anchor = <<>>)
          => /\ call.result.ok \/ call.result.error # "AnchorParameterIsRequired"
             /\ \A a \in Anchors :
                   call.result = consign(storage, indexer, call.contract_id,
                                         call.node, <<a>>, call.expose)

\* consign was called with an Extension and no anchor and returned a
\* Consignment that holds an ancestor.
C12_WitnessExtension ==
    /\ call.op = "consign"
    /\ call.node.kind = "Extension"
    /\ call.anchor = <<>>
    /\ call.result.ok
    /\ Len(call.result.value.state_transitions) >= 1

\* consign was called with a Transition and no anchor, the genesis of
\* contract_id being stored, and failed with AnchorParameterIsRequired.
C12_Witness ==
    /\ call.op = "consign"
    /\ call.node.kind = "Transition"
    /\ call.anchor = <<>>
    /\ call.result = Err("AnchorParameterIsRequired")

\* ---- C13
\* C13: consign is read-only. From the entry of a call of consign to its
\* return, whatever it returns, the Store and the Index hold the entries they
\* held before: the concealment is applied to copies.
C13_ReadOnly ==
    [][(call.op = "idle" /\ call'.op = "consign")
          => (storage' = storage /\ indexer' = indexer)]_vars

\* consign returned a Consignment in which the target, stored and passed in
\* revealed form, and an ancestor stored in revealed form are concealed,
\* while the Store still holds both in revealed form.
C13_Witness ==
    /\ ConsignReturned
    /\ call.node.kind = "Transition"
    /\ call.node.node_id \in DOMAIN storage.transitions
    /\ storage.transitions[call.node.node_id] = call.node
    /\ ~AllConcealed(call.node)
    /\ AllConcealed(TargetEntry)
    /\ \E v \in AncestorEntries :
          /\ AllConcealed(v)
          /\ v.kind = "Transition"
          /\ ~AllConcealed(storage.transitions[v.node_id])

\* ---- C14
\* The two nodes are the same node up to the concealment of their items.
SameUpToConcealment(v, w) == conceal_all(v) = conceal_all(w)

\* C14: genesis-only parent. When consign is called with a Transition, an
\* anchor and a contract_id whose genesis is stored, and every parent pointer
\* of the Transition is the Genesis identifier, it succeeds whatever else the
\* Index and the Store hold, and returns the stored genesis, the endpoints
\* {(node_id, e) : e in expose}, one state transition, the anchor with the
\* target, and no state extension. In every Consignment returned, no entry of
\* state_transitions or state_extensions is the Genesis.
C14_GenesisOnlyParent ==
    /\ (/\ call.op = "consign"
        /\ call.node.kind = "Transition"
        /\ call.anchor # <<>>
        /\ call.contract_id \in DOMAIN storage.genesis
        /\ ParentsOf(call.node) \subseteq {call.contract_id})
          => /\ call.result.ok
             /\ LET c == call.result.value
                IN  /\ c.genesis = storage.genesis[call.contract_id]
                    /\ Range(c.endpoints) =
                          {<<call.node.node_id, e>> : e \in call.expose}
                    /\ Len(c.endpoints) = Cardinality(call.expose)
                    /\ Len(c.state_transitions) = 1
                    /\ c.state_transitions[1][1] = call.anchor[1]
                    /\ SameUpToConcealment(c.state_transitions[1][2], call.node)
                    /\ c.state_extensions = <<>>
    /\ ConsignReturned
          => \A v \in NodesIn(call.result.value) :
                v.kind # "Genesis" /\ v.node_id # call.contract_id

\* consign returned for a Transition whose parents are the Genesis only,
\* with an endpoint exposed, the Index being empty and the Store holding
\* nothing but the genesis.
C14_Witness ==
    /\ ConsignReturned
    /\ call.node.kind = "Transition"
    /\ ParentsOf(call.node) = {call.contract_id}
    /\ call.expose # {}
    /\ indexer = EmptyIndex
    /\ storage = add_genesis(EmptyStorage, MkGenesis(call.contract_id))

\* ---- C15
\* C15: no duplicate entries. In every Consignment returned by consign, each
\* node identifier occurs at most once across state_transitions and
\* state_extensions.
C15_NoDuplicates ==
    ConsignReturned =>
        LET c == call.result.value
            entries == TransitionsIn(c) \o c.state_extensions
        IN  \A i, j \in 1..Len(entries) :
                entries[i].node_id = entries[j].node_id => i = j

\* ---- C16
\* The call read by read takes its next read, at the position pc.
ConsignReads(pc) ==
    /\ consigning.op = "consign"
    /\ consigning.pc = pc
    /\ consigning' # consigning

\* The call read by read fails at this step with the error.
ConsignFails(error) ==
    /\ consigning'.pc = "done"
    /\ consigning'.cs.status = error

\* The identifier the next pop takes is not the Genesis identifier and the
\* Index has no entry for it.
IndexMiss ==
    /\ Head(consigning.cs.sources) # consigning.genesis[1].node_id
    /\ Head(consigning.cs.sources) \notin DOMAIN indexer

\* The Store does not hold the anchor the Index named.
AnchorMiss == consigning.anchor_id \notin DOMAIN storage.anchors

\* C16: for a dequeued non-Genesis identifier, when the Index has no anchor
\* entry for it, or the Store does not hold the anchor the Index names,
\* consign fails with StorageError.
C16_AnchorLookupFailure ==
    [][/\ (ConsignReads("index") /\ IndexMiss) => ConsignFails("StorageError")
       /\ (ConsignReads("anchor") /\ AnchorMiss) => ConsignFails("StorageError")]_vars

\* C16, amended: for a dequeued non-Genesis identifier, consign fails with
\* IndexError when the Index has no anchor entry for it, and with
\* StorageError when the Store does not hold the anchor the Index names.
C16_AnchorLookupFailureAmended ==
    [][/\ (ConsignReads("index") /\ IndexMiss) => ConsignFails("IndexError")
       /\ (ConsignReads("anchor") /\ AnchorMiss) => ConsignFails("StorageError")]_vars

\* consign failed with IndexError on an ancestor met after another ancestor
\* had been added.
C16_Witness ==
    /\ consigning.op = "consign"
    /\ consigning.pc = "done"
    /\ consigning.cs.status = "IndexError"
    /\ consigning.node_id \notin DOMAIN indexer
    /\ Len(consigning.cs.state_transitions) + Len(consigning.cs.state_extensions) >= 2

\* consign failed with StorageError on an anchor that the Index names and
\* the Store does not hold.
C16_WitnessAnchor ==
    /\ consigning.op = "consign"
    /\ consigning.pc = "done"
    /\ consigning.cs.status = "StorageError"
    /\ consigning.anchor_id # 0
    /\ consigning.anchor_id \notin DOMAIN storage.anchors

\* ---- C17
\* The entries recorded so far by the call read by read.
EntriesOf(rd) ==
    [i \in 1..Len(rd.cs.state_transitions) |-> rd.cs.state_transitions[i][2]]
        \o rd.cs.state_extensions

\* C17: exactly-one lookup. For a dequeued non-Genesis identifier whose
\* anchor was loaded, when exactly one of the transition lookup and the
\* extension lookup succeeds, the node found is added; when both succeed or
\* both fail, nothing is added and consign fails with StorageError.
C17_ExactlyOneLookup ==
    [][ConsignReads("extension") =>
         LET isT == consigning.transition_read # <<>>
             isE == consigning.node_id \in DOMAIN storage.extensions
             old == consigning.cs
             new == consigning'.cs
         IN  IF isT # isE
             THEN /\ new.status = "running"
                  /\ Len(new.state_transitions) =
                        Len(old.state_transitions) + (IF isT THEN 1 ELSE 0)
                  /\ Len(new.state_extensions) =
                        Len(old.state_extensions) + (IF isE THEN 1 ELSE 0)
             ELSE /\ ConsignFails("StorageError")
                  /\ new.state_transitions = old.state_transitions
                  /\ new.state_extensions = old.state_extensions]_vars

\* consign added one ancestor and then failed with StorageError on another,
\* whose anchor was loaded and for which both lookups failed.
C17_Witness ==
    /\ consigning.op = "consign"
    /\ consigning.pc = "done"
    /\ consigning.cs.status = "StorageError"
    /\ consigning.node_id # 0
    /\ consigning.anchor_id = 0
    /\ Len(EntriesOf(consigning)) >= 2

\* ---- C18
\* The number of Store writes a call of merge at this position has behind it.
MergePosition(c) ==
    IF c.pc = "add_anchor" THEN 2 * (c.i - 1)
    ELSE IF c.pc = "add_transition" THEN 2 * (c.i - 1) + 1
    ELSE IF c.pc = "add_extension"
    THEN 2 * Len(c.consignment.state_transitions) + (c.i - 1)
    ELSE NumWrites(c.consignment)

\* C18: termination. Every call of consign eventually returns, a Consignment
\* or an error; every call of merge eventually returns, and each of its steps
\* moves it one write forward through the entries of the consignment, so
\* that no entry is processed twice.
C18_Termination ==
    /\ (consigning.op = "consign") ~> (consigning.op = "consign" /\ consigning.pc = "done")
    /\ (call.op = "merge") ~> (call.op = "merge" /\ ~merge_running(call))
    /\ [][(call.op = "merge" /\ call'.op = "merge" /\ call' # call)
             => /\ MergePosition(call') = MergePosition(call) + 1
                /\ MergePosition(call') <= NumWrites(call.consignment)]_vars

\* consign returned a Consignment after a traversal that met the same
\* ancestor on two paths, beside a merge that had written all its entries.
C18_Witness ==
    /\ consigning.op = "consign"
    /\ consigning.pc = "done"
    /\ consigning.cs.status = "running"
    /\ Len(EntriesOf(consigning)) >= 4
    /\ call.op = "merge"
    /\ ~merge_running(call)
    /\ NumWrites(call.consignment) >= 3

\* ---- C19
\* C19: interleaving with merge. A call of consign whose reads of the Store
\* fall between the Store writes of a merge in progress fails with an error
\* or returns a Consignment in which every parent identifier of every entry
\* is the Genesis identifier of contract_id or the identifier of an entry.
C19_InterleavedClosure ==
    (consigning.op = "consign" /\ consigning.pc = "done")
        => \/ ~consign_end(consigning).ok
           \/ \A v \in Range(EntriesOf(consigning)) :
                 \A p \in ParentsOf(v) :
                    \/ p = consigning.contract_id
                    \/ \E w \in Range(EntriesOf(consigning)) : w.node_id = p

\* consign returned a Consignment holding an ancestor that the Store did not
\* hold when the merge still in progress was entered: the ancestor was read
\* between two writes of that merge.
C19_Witness ==
    /\ consigning.op = "consign"
    /\ consigning.pc = "done"
    /\ consign_end(consigning).ok
    /\ call.op = "merge"
    /\ merge_running(call)
    /\ \E v \in Range(EntriesOf(consigning)) :
          /\ v.node_id # consigning.node.node_id
          /\ v.node_id \notin DOMAIN call.before.transitions
          /\ v.node_id \notin DOMAIN call.before.extensions

\* ---- C20
\* The items a Store holds in revealed form under the identifier, in the map
\* of transitions or of extensions.
RevealedItems(map, id) ==
    IF id \in DOMAIN map THEN {a \in Items(map[id]) : ~a.conf} ELSE {}

\* C20: revelation is monotonic across merges. An item that a stored
\* Transition or Extension has in revealed form stays in revealed form
\* through every Store write of a merge whose known_seals do not name its
\* seal.
C20_RevelationMonotonic ==
    [][call.op = "merge" =>
         \A id \in NodeIds :
            /\ \A a \in RevealedItems(storage.transitions, id) :
                  a.seal \notin Range(call.known_seals)
                     => a \in RevealedItems(storage'.transitions, id)
            /\ \A a \in RevealedItems(storage.extensions, id) :
                  a.seal \notin Range(call.known_seals)
                     => a \in RevealedItems(storage'.extensions, id)]_vars

====
